---- MODULE Spec2Model ----
(***************************************************************************)
(* Model of orb_slam_2_ros, src/library/interface.cpp: the class           *)
(* OrbSlam2Interface.  Two specifications share the module:                *)
(*   Spec      the life of one interface object: construction (topics,     *)
(*             timer, parameters), then calls of the publish methods       *)
(*             interleaved with timer ticks;                               *)
(*   SpecConv  one call of convertOrbSlamPoseToKindr on a bounded set of   *)
(*             input matrices.                                             *)
(* Numbers are exact (integers and ratios of integers); floating-point     *)
(* rounding and non-finite values are outside the model.                   *)
(***************************************************************************)
EXTENDS Integers, Sequences, FiniteSets, TLC

VARIABLES
  params,                  \* the private node handle's parameter server
  pc,                      \* "start" | "constructed" | "aborted"
  fatal,                   \* message of the failed CHECK, "" if none
  reads,                   \* names passed to getParam, in call order
  vocabulary_file_path_,
  settings_file_path_,
  verbose_,
  frame_id_,
  child_frame_id_,
  advertised,              \* topic -> queue size, as advertised
  tf_timer_,               \* the timer created by advertiseTopics
  T_W_C_,                  \* the stored camera pose
  published,               \* every message handed to a publish primitive, in order
  call,                    \* SpecCall: the method called and its arguments
  T_cv,                    \* convertOrbSlamPoseToKindr: the input matrix
  T_kindr,                 \* convertOrbSlamPoseToKindr: the output argument
  convPc,                  \* "call" | "done" | "aborted"
  convFatal                \* the check that failed, "" if none

vars == <<params, pc, fatal, reads, vocabulary_file_path_, settings_file_path_,
          verbose_, frame_id_, child_frame_id_, advertised, tf_timer_, T_W_C_,
          published, call, T_cv, T_kindr, convPc, convFatal>>

ifaceVars == <<params, pc, fatal, reads, vocabulary_file_path_,
               settings_file_path_, verbose_, frame_id_, child_frame_id_,
               advertised, tf_timer_, T_W_C_, published, call>>

\* Everything construction sets.
configVars == <<params, pc, fatal, reads, vocabulary_file_path_,
                settings_file_path_, verbose_, frame_id_, child_frame_id_,
                advertised, tf_timer_>>

convVars == <<T_cv, T_kindr, convPc, convFatal>>

----------------------------------------------------------------------------
(* Bounds *)

MaxCalls == 2      \* messages published in one behaviour
MaxPoints == 4     \* length of a map-point list
MaxDiag == 1       \* magnitude of a diagonal entry of the rotation block

----------------------------------------------------------------------------
(* Values *)

kDefaultVerbose == TRUE
kDefaultFrameId == "world"
kDefaultChildFrameId == "cam0"

kQueueSize == 1
kTimerPeriodMs == 10

Stamps == {1, 2}
HeaderFrames == {"world", "camera_optical"}
Headers == [stamp : Stamps, frame_id : HeaderFrames]

\* A Transformation: unit quaternion <<w, x, y, z>> and position <<x, y, z>>.
Identity == [q |-> <<1, 0, 0, 0>>, p |-> <<0, 0, 0>>]
Transformations == {Identity, [q |-> <<0, 0, 0, 1>>, p |-> <<1, 2, 3>>]}

\* A map-point pointer: null, or an object whose world position is a
\* 3-vector or an empty matrix.
NullPoint == [null |-> TRUE, pos |-> <<>>]
MapPoints == {NullPoint,
              [null |-> FALSE, pos |-> <<>>],
              [null |-> FALSE, pos |-> <<1, 2, 3>>],
              [null |-> FALSE, pos |-> <<4, 5, 6>>]}
MapPointLists == UNION {[1..n -> MapPoints] : n \in 0..MaxPoints}

\* The lists published while calls and timer ticks interleave.
SomeMapPointLists ==
  {<<>>,
   <<NullPoint, [null |-> FALSE, pos |-> <<1, 2, 3>>]>>,
   <<[null |-> FALSE, pos |-> <<4, 5, 6>>], [null |-> FALSE, pos |-> <<>>],
     [null |-> FALSE, pos |-> <<1, 2, 3>>]>>}

\* A method call with its arguments.
NoCall == [op |-> "none"]
Calls ==
  [op : {"publishCurrentPose", "publishCurrentPoseAsPose"},
   T : Transformations, header : Headers]
  \cup [op : {"publishPointCloud"}, mapPoints : MapPointLists, header : Headers]

\* A parameter of the server: present with a value, or absent.
Present(v) == [has |-> TRUE, val |-> v]
Absent(v) == [has |-> FALSE, val |-> v]
ParamServers ==
  [vocabulary_file_path : {Absent(""), Present("ORBvoc.txt")},
   settings_file_path : {Absent(""), Present("settings.yaml")},
   verbose : {Absent(FALSE), Present(FALSE)},
   frame_id : {Absent(""), Present("map")},
   child_frame_id : {Absent(""), Present("camera")}]

----------------------------------------------------------------------------
(* Construction *)

\* Mutant: an absent parameter overwrites the variable.
getParamOverwriting(P, name, cur) ==
  [ok |-> P[name].has, val |-> P[name].val]

\* NodeHandle::getParam: the value and TRUE when the parameter is present,
\* the variable's current value and FALSE when it is not.
getParam(P, name, cur) ==
  [ok |-> P[name].has, val |-> IF P[name].has THEN P[name].val ELSE cur]

advertiseTopics ==
  [topics |-> [t \in {"transform_cam", "pose_cam", "keypoints_cloud"} |-> kQueueSize],
   timer |-> [created |-> TRUE, period_ms |-> kTimerPeriodMs,
              callback |-> "publishCurrentPoseAsTF"]]

\* Mutant: settings_file_path is read like an optional parameter.
getParametersFromRosSettingsOptional(P, m) ==
  LET voc == getParam(P, "vocabulary_file_path", m.vocabulary_file_path_)
      m1 == [m EXCEPT !.vocabulary_file_path_ = voc.val]
  IN IF ~voc.ok
     THEN [members |-> m1, reads |-> <<"vocabulary_file_path">>,
           fatal |-> "Please provide the vocabulary_file_path as a ros param."]
     ELSE
  LET m2 == [m1 EXCEPT !.settings_file_path_ =
                          getParam(P, "settings_file_path", m1.settings_file_path_).val]
      m3 == [m2 EXCEPT !.verbose_ = getParam(P, "verbose", m2.verbose_).val]
      m4 == [m3 EXCEPT !.frame_id_ = getParam(P, "frame_id", m3.frame_id_).val]
      m5 == [m4 EXCEPT !.child_frame_id_ =
                          getParam(P, "child_frame_id", m4.child_frame_id_).val]
  IN [members |-> m5,
      reads |-> <<"vocabulary_file_path", "settings_file_path", "verbose",
                  "frame_id", "child_frame_id">>,
      fatal |-> ""]

\* The members after getParametersFromRos, the getParam calls it made and
\* the CHECK that failed, if one did.  m holds the members on entry.
getParametersFromRos(P, m) ==
  LET voc == getParam(P, "vocabulary_file_path", m.vocabulary_file_path_)
      m1 == [m EXCEPT !.vocabulary_file_path_ = voc.val]
  IN IF ~voc.ok
     THEN [members |-> m1, reads |-> <<"vocabulary_file_path">>,
           fatal |-> "Please provide the vocabulary_file_path as a ros param."]
     ELSE
  LET set == getParam(P, "settings_file_path", m1.settings_file_path_)
      m2 == [m1 EXCEPT !.settings_file_path_ = set.val]
  IN IF ~set.ok
     THEN [members |-> m2,
           reads |-> <<"vocabulary_file_path", "settings_file_path">>,
           fatal |-> "Please provide the settings_file_path as a ros param."]
     ELSE
  LET m3 == [m2 EXCEPT !.verbose_ = getParam(P, "verbose", m2.verbose_).val]
      m4 == [m3 EXCEPT !.frame_id_ = getParam(P, "frame_id", m3.frame_id_).val]
      m5 == [m4 EXCEPT !.child_frame_id_ =
                          getParam(P, "child_frame_id", m4.child_frame_id_).val]
  IN [members |-> m5,
      reads |-> <<"vocabulary_file_path", "settings_file_path", "verbose",
                  "frame_id", "child_frame_id">>,
      fatal |-> ""]

Members ==
  [vocabulary_file_path_ |-> vocabulary_file_path_,
   settings_file_path_ |-> settings_file_path_,
   verbose_ |-> verbose_,
   frame_id_ |-> frame_id_,
   child_frame_id_ |-> child_frame_id_]

\* The constructor body: advertiseTopics(), then getParametersFromRos().
OrbSlam2Interface ==
  /\ pc = "start"
  /\ LET a == advertiseTopics
         r == getParametersFromRos(params, Members)
     IN /\ advertised' = a.topics
        /\ tf_timer_' = a.timer
        /\ vocabulary_file_path_' = r.members.vocabulary_file_path_
        /\ settings_file_path_' = r.members.settings_file_path_
        /\ verbose_' = r.members.verbose_
        /\ frame_id_' = r.members.frame_id_
        /\ child_frame_id_' = r.members.child_frame_id_
        /\ reads' = r.reads
        /\ fatal' = r.fatal
        /\ pc' = IF r.fatal = "" THEN "constructed" ELSE "aborted"
  /\ UNCHANGED <<params, T_W_C_, published, call>>
  /\ UNCHANGED convVars

----------------------------------------------------------------------------
(* Publishing *)

\* tf::transformKindrToMsg: geometry_msgs::Transform
transformKindrToMsg(T) ==
  [translation |-> [x |-> T.p[1], y |-> T.p[2], z |-> T.p[3]],
   rotation |-> [x |-> T.q[2], y |-> T.q[3], z |-> T.q[4], w |-> T.q[1]]]

\* tf::poseKindrToMsg: geometry_msgs::Pose
poseKindrToMsg(T) ==
  [position |-> [x |-> T.p[1], y |-> T.p[2], z |-> T.p[3]],
   orientation |-> [x |-> T.q[2], y |-> T.q[3], z |-> T.q[4], w |-> T.q[1]]]

\* tf::transformKindrToTF: tf::Transform
transformKindrToTF(T) ==
  [origin |-> <<T.p[1], T.p[2], T.p[3]>>,
   rotation |-> <<T.q[2], T.q[3], T.q[4], T.q[1]>>]

\* Mutant: a message replaces the one before it on the same channel.
publishKeepLatest(log, topic, msg) ==
  IF log # <<>> /\ log[Len(log)].topic = topic
  THEN [log EXCEPT ![Len(log)] = [topic |-> topic, msg |-> msg]]
  ELSE Append(log, [topic |-> topic, msg |-> msg])

\* A publish primitive: the message goes out once, on the given channel.
publish(log, topic, msg) == Append(log, [topic |-> topic, msg |-> msg])

\* Mutant: the header's frame is overwritten, as the pose message's is.
TransformStampedMsgWorld(T, header, child) ==
  [header |-> [header EXCEPT !.frame_id = "world"], child_frame_id |-> child,
   transform |-> transformKindrToMsg(T)]

TransformStampedMsg(T, header, child) ==
  [header |-> header, child_frame_id |-> child, transform |-> transformKindrToMsg(T)]

\* Mutant: the header's frame is passed on.
PoseStampedMsgKeepFrame(T, header) ==
  [header |-> header, pose |-> poseKindrToMsg(T)]

PoseStampedMsg(T, header) ==
  [header |-> [header EXCEPT !.frame_id = "world"], pose |-> poseKindrToMsg(T)]

\* Mutant: parent and child frame are exchanged.
StampedTransformSwapped(tf, stamp, frame, child) ==
  [stamp |-> stamp, frame_id |-> child, child_frame_id |-> frame, transform |-> tf]

StampedTransform(tf, stamp, frame, child) ==
  [stamp |-> stamp, frame_id |-> frame, child_frame_id |-> child, transform |-> tf]

Running == pc = "constructed" /\ Len(published) < MaxCalls

publishCurrentPose(T, header) ==
  /\ Running
  /\ published' = publish(published, "transform_cam",
                          TransformStampedMsg(T, header, child_frame_id_))
  /\ UNCHANGED <<configVars, T_W_C_, call>>
  /\ UNCHANGED convVars

publishCurrentPoseAsPose(T, header) ==
  /\ Running
  /\ published' = publish(published, "pose_cam", PoseStampedMsg(T, header))
  /\ UNCHANGED <<configVars, T_W_C_, call>>
  /\ UNCHANGED convVars

\* The timer callback; now is ros::Time::now() at the tick.
publishCurrentPoseAsTF(now) ==
  /\ Running
  /\ tf_timer_.created
  /\ published' = publish(published, "/tf",
                          StampedTransform(transformKindrToTF(T_W_C_), now,
                                           frame_id_, child_frame_id_))
  /\ UNCHANGED <<configVars, T_W_C_, call>>
  /\ UNCHANGED convVars

\* Mutant: a null entry ends the loop.
RECURSIVE collectPointsStopAtNull(_, _, _)
collectPointsStopAtNull(mapPoints, i, points) ==
  IF i > Len(mapPoints) THEN points
  ELSE LET mp == mapPoints[i]
       IN IF mp.null THEN points
          ELSE LET worldPos == mp.pos
               IN IF Len(worldPos) = 0
                  THEN collectPointsStopAtNull(mapPoints, i + 1, points)
                  ELSE collectPointsStopAtNull(mapPoints, i + 1,
                         Append(points,
                                [x |-> worldPos[1], y |-> worldPos[2],
                                 z |-> worldPos[3],
                                 r |-> 255, g |-> 255, b |-> 255]))

\* The loop of publishPointCloud from entry i on: the points pushed to the
\* cloud, after those already in it.
RECURSIVE collectPoints(_, _, _)
collectPoints(mapPoints, i, points) ==
  IF i > Len(mapPoints) THEN points
  ELSE LET mp == mapPoints[i]
       IN IF mp.null THEN collectPoints(mapPoints, i + 1, points)
          ELSE LET worldPos == mp.pos
               IN IF Len(worldPos) = 0
                  THEN collectPoints(mapPoints, i + 1, points)
                  ELSE collectPoints(mapPoints, i + 1,
                         Append(points,
                                [x |-> worldPos[1], y |-> worldPos[2],
                                 z |-> worldPos[3],
                                 r |-> 255, g |-> 255, b |-> 255]))

\* pcl::toROSMsg(cloud, msg): every field of msg is written from the cloud,
\* its header included; a cloud of width 0 and height 0 is sent as one row of
\* all its points.
toROSMsg(cloud, msg) ==
  [header |-> cloud.header,
   height |-> IF cloud.width = 0 /\ cloud.height = 0 THEN 1 ELSE cloud.height,
   width |-> IF cloud.width = 0 /\ cloud.height = 0
             THEN Len(cloud.points) ELSE cloud.width,
   points |-> cloud.points]

PointCloud2Msg(mapPoints, header) ==
  LET cloud == [header |-> [stamp |-> 0, frame_id |-> ""],
                width |-> 0, height |-> 0,
                points |-> collectPoints(mapPoints, 1, <<>>)]
      cloudMsg == [header |-> header, height |-> 0, width |-> 0, points |-> <<>>]
      converted == toROSMsg(cloud, cloudMsg)
  IN [converted EXCEPT !.header.frame_id = "world"]

publishPointCloud(mapPoints, header) ==
  /\ Running
  /\ published' = publish(published, "keypoints_cloud",
                          PointCloud2Msg(mapPoints, header))
  /\ UNCHANGED <<configVars, T_W_C_, call>>
  /\ UNCHANGED convVars

\* The sensor-frame callback of a derived interface stores the tracked pose.
StorePose(T) ==
  /\ pc = "constructed"
  /\ T_W_C_' = T
  /\ UNCHANGED <<configVars, published, call>>
  /\ UNCHANGED convVars

----------------------------------------------------------------------------
(* convertOrbSlamPoseToKindr *)

OffDiag == {-1, 0, 1}
Diag == (0 - MaxDiag)..MaxDiag
Translations == {<<0, 0, 0>>, <<1, -2, 3>>}
OtherDims == {<<0, 0>>, <<3, 3>>, <<3, 4>>, <<4, 3>>}

Mat4(d, o, t) ==
  <<<<d[1], o[1], o[2], t[1]>>,
    <<o[3], d[2], o[4], t[2]>>,
    <<o[5], o[6], d[3], t[3]>>,
    <<0, 0, 0, 1>>>>

Mats ==
  {[rows |-> 4, cols |-> 4, data |-> Mat4(d, o, t)] :
     d \in [1..3 -> Diag], o \in [1..6 -> OffDiag], t \in Translations}
  \cup {[rows |-> rc[1], cols |-> rc[2],
         data |-> [i \in 1..rc[1] |-> [j \in 1..rc[2] |-> 0]]] : rc \in OtherDims}

I3 == <<<<1, 0, 0>>, <<0, 1, 0>>, <<0, 0, 1>>>>

\* A default-constructed Transformation; the rotation is kept as its matrix,
\* num / den.
DefaultTransformation == [R |-> [num |-> I3, den |-> 1], t |-> <<0, 0, 0>>]

\* T_eigen_d.block<3, 3>(0, 0)
Block33(M) == [i \in 1..3 |-> [j \in 1..3 |-> M[i][j]]]

\* T_eigen_d.block<3, 1>(0, 3)
Block31(M) == [i \in 1..3 |-> M[i][4]]

\* Eigen's quaternion of a 3x3 matrix, <<w, x, y, z>>, times the positive
\* factor 2 * sqrt(.) that Eigen divides by, so that it stays an integer.
QuaternionOfMatrix(m) ==
  LET t == m[1][1] + m[2][2] + m[3][3]
  IN IF t > 0
     THEN <<t + 1, m[3][2] - m[2][3], m[1][3] - m[3][1], m[2][1] - m[1][2]>>
     ELSE LET i0 == IF m[2][2] > m[1][1] THEN 2 ELSE 1
              i == IF m[3][3] > m[i0][i0] THEN 3 ELSE i0
              j == (i % 3) + 1
              k == (j % 3) + 1
              v == [c \in 1..3 |->
                      IF c = i THEN m[i][i] - m[j][j] - m[k][k] + 1
                      ELSE IF c = j THEN m[j][i] + m[i][j]
                      ELSE m[k][i] + m[i][k]]
          IN <<m[k][j] - m[j][k], v[1], v[2], v[3]>>

\* AngleAxisd(q).toRotationMatrix(): the axis is q's vector part over its
\* norm n (negated when w < 0), the angle 2 * atan2(n, |w|); Rodrigues'
\* formula on them is ((w^2 - n^2) I + 2 w [v]x + 2 v v^T) / (w^2 + n^2).
\* With n = 0 the angle is 0 and the matrix is the identity.
AngleAxisRotation(q) ==
  LET w == q[1]
      x == q[2]
      y == q[3]
      z == q[4]
      nn == x * x + y * y + z * z
  IN IF nn = 0 THEN [num |-> I3, den |-> 1]
     ELSE [num |->
             <<<<w * w - nn + 2 * x * x, 2 * x * y - 2 * w * z, 2 * x * z + 2 * w * y>>,
               <<2 * x * y + 2 * w * z, w * w - nn + 2 * y * y, 2 * y * z - 2 * w * x>>,
               <<2 * x * z - 2 * w * y, 2 * y * z + 2 * w * x, w * w - nn + 2 * z * z>>>>,
           den |-> w * w + nn]

\* Mutant: the rows are checked before the columns.
ArgumentCheckRowsFirst(M, out) ==
  IF out.null THEN "Check failed: 'T_kindr' Must be non NULL"
  ELSE IF M.rows # 4 THEN "Check failed: T_cv.rows == 4"
  ELSE IF M.cols # 4 THEN "Check failed: T_cv.cols == 4"
  ELSE ""

\* The three argument checks, in order: the message of the first that fails.
ArgumentCheck(M, out) ==
  IF out.null THEN "Check failed: 'T_kindr' Must be non NULL"
  ELSE IF M.cols # 4 THEN "Check failed: T_cv.cols == 4"
  ELSE IF M.rows # 4 THEN "Check failed: T_cv.rows == 4"
  ELSE ""

\* Mutant: the block is taken as the rotation without orthonormalizing it.
KindrOfPoseUnnormalized(M) ==
  [R |-> [num |-> Block33(M.data), den |-> 1], t |-> Block31(M.data)]

\* The transformation built from a 4x4 matrix.
KindrOfPose(M) ==
  LET R_unnormalized == Block33(M.data)
      R == AngleAxisRotation(QuaternionOfMatrix(R_unnormalized))
  IN [R |-> R, t |-> Block31(M.data)]

convertOrbSlamPoseToKindr ==
  /\ convPc = "call"
  /\ LET failed == ArgumentCheck(T_cv, T_kindr)
     IN IF failed # ""
        THEN /\ convPc' = "aborted"
             /\ convFatal' = failed
             /\ UNCHANGED T_kindr
        ELSE /\ convPc' = "done"
             /\ convFatal' = ""
             /\ T_kindr' = [T_kindr EXCEPT !.value = KindrOfPose(T_cv),
                                           !.writes = @ + 1]
  /\ UNCHANGED T_cv
  /\ UNCHANGED ifaceVars

----------------------------------------------------------------------------
(* Specifications *)

NoTimer == [created |-> FALSE, period_ms |-> 0, callback |-> ""]

InitInterface ==
  /\ pc = "start"
  /\ fatal = ""
  /\ reads = <<>>
  /\ vocabulary_file_path_ = ""
  /\ settings_file_path_ = ""
  /\ verbose_ = kDefaultVerbose
  /\ frame_id_ = kDefaultFrameId
  /\ child_frame_id_ = kDefaultChildFrameId
  /\ advertised = <<>>
  /\ tf_timer_ = NoTimer
  /\ T_W_C_ = Identity
  /\ published = <<>>

Init ==
  /\ params \in ParamServers
  /\ InitInterface
  /\ call = NoCall
  /\ T_cv = [rows |-> 0, cols |-> 0, data |-> <<>>]
  /\ T_kindr = [null |-> TRUE, writes |-> 0, value |-> DefaultTransformation]
  /\ convPc = "idle"
  /\ convFatal = ""

Next ==
  \/ OrbSlam2Interface
  \/ \E T \in Transformations, header \in Headers : publishCurrentPose(T, header)
  \/ \E T \in Transformations, header \in Headers : publishCurrentPoseAsPose(T, header)
  \/ \E now \in Stamps : publishCurrentPoseAsTF(now)
  \/ \E mapPoints \in SomeMapPointLists, header \in Headers :
        publishPointCloud(mapPoints, header)
  \/ \E T \in Transformations : StorePose(T)

Spec == Init /\ [][Next]_vars

\* One method, called with the arguments held in call.
InitCall ==
  /\ params \in ParamServers
  /\ InitInterface
  /\ call \in Calls
  /\ T_cv = [rows |-> 0, cols |-> 0, data |-> <<>>]
  /\ T_kindr = [null |-> TRUE, writes |-> 0, value |-> DefaultTransformation]
  /\ convPc = "idle"
  /\ convFatal = ""

Call ==
  \/ call.op = "publishCurrentPose" /\ publishCurrentPose(call.T, call.header)
  \/ call.op = "publishCurrentPoseAsPose"
        /\ publishCurrentPoseAsPose(call.T, call.header)
  \/ call.op = "publishPointCloud"
        /\ publishPointCloud(call.mapPoints, call.header)

NextCall == OrbSlam2Interface \/ Call

SpecCall == InitCall /\ [][NextCall]_vars

InitConv ==
  /\ params = [vocabulary_file_path |-> Absent(""),
               settings_file_path |-> Absent(""),
               verbose |-> Absent(FALSE),
               frame_id |-> Absent(""),
               child_frame_id |-> Absent("")]
  /\ InitInterface
  /\ call = NoCall
  /\ T_cv \in Mats
  /\ T_kindr \in [null : BOOLEAN, writes : {0}, value : {DefaultTransformation}]
  /\ convPc = "call"
  /\ convFatal = ""

NextConv == convertOrbSlamPoseToKindr

SpecConv == InitConv /\ [][NextConv]_vars

----------------------------------------------------------------------------
(* Properties of construction *)

RequiredPresent == params.vocabulary_file_path.has /\ params.settings_file_path.has

\* C2: construction completes only if vocabulary_file_path and
\* settings_file_path are both present.  A missing vocabulary_file_path
\* aborts after that one read; a missing settings_file_path alone aborts
\* after the two required reads; an aborted construction leaves no object
\* that publishes or stores anything.
C2_RequiredParamsOrAbort ==
  /\ pc = "constructed" => RequiredPresent
  /\ (pc # "start" /\ ~params.vocabulary_file_path.has) =>
        /\ pc = "aborted"
        /\ reads = <<"vocabulary_file_path">>
        /\ fatal = "Please provide the vocabulary_file_path as a ros param."
  /\ (pc # "start" /\ params.vocabulary_file_path.has
        /\ ~params.settings_file_path.has) =>
        /\ pc = "aborted"
        /\ reads = <<"vocabulary_file_path", "settings_file_path">>
        /\ fatal = "Please provide the settings_file_path as a ros param."
  /\ pc = "aborted" => published = <<>> /\ T_W_C_ = Identity

C2_Witness ==
  /\ pc = "aborted"
  /\ params.vocabulary_file_path.has
  /\ ~params.settings_file_path.has
  /\ params.frame_id.has

OptionalOrDefault(name, default) ==
  IF params[name].has THEN params[name].val ELSE default

\* C3: after a successful construction each of verbose_, frame_id_ and
\* child_frame_id_ holds its parameter's value when the parameter is set and
\* its compiled-in default when it is absent, whatever the other two are; with
\* both required parameters present, construction succeeds.
C3_OptionalParamsOrDefaults ==
  /\ pc = "constructed" =>
        /\ verbose_ = OptionalOrDefault("verbose", kDefaultVerbose)
        /\ frame_id_ = OptionalOrDefault("frame_id", kDefaultFrameId)
        /\ child_frame_id_ = OptionalOrDefault("child_frame_id", kDefaultChildFrameId)
  /\ (pc # "start" /\ RequiredPresent) => pc = "constructed"

C3_Witness ==
  /\ pc = "constructed"
  /\ ~params.frame_id.has
  /\ params.child_frame_id.has
  /\ params.verbose.has
  /\ frame_id_ = kDefaultFrameId
  /\ child_frame_id_ = "camera"
  /\ verbose_ = FALSE

----------------------------------------------------------------------------
(* Properties of one call *)

Contributes(mp) == ~mp.null /\ Len(mp.pos) > 0

WhitePoint(pos) ==
  [x |-> pos[1], y |-> pos[2], z |-> pos[3], r |-> 255, g |-> 255, b |-> 255]

ExpectedPoints(mapPoints) ==
  LET kept == SelectSeq(mapPoints, Contributes)
  IN [i \in 1..Len(kept) |-> WhitePoint(kept[i].pos)]

\* C1: the cloud published for a list of map points holds one white point
\* for each entry that is non-null and has a non-empty world position, in
\* the order of the list, at the first three elements of that position;
\* the other entries add nothing and do not end the loop.
C1_CloudHoldsContributingPoints ==
  call.op = "publishPointCloud" =>
    \A i \in 1..Len(published) :
      /\ published[i].topic = "keypoints_cloud"
      /\ published[i].msg.points = ExpectedPoints(call.mapPoints)
      /\ published[i].msg.width = Len(ExpectedPoints(call.mapPoints))
      /\ published[i].msg.height = 1

C1_Witness ==
  /\ call.op = "publishPointCloud"
  /\ call.mapPoints = <<NullPoint, [null |-> FALSE, pos |-> <<4, 5, 6>>],
                        [null |-> FALSE, pos |-> <<>>],
                        [null |-> FALSE, pos |-> <<1, 2, 3>>]>>
  /\ Len(published) = 1
  /\ published[1].msg.points = <<WhitePoint(<<4, 5, 6>>), WhitePoint(<<1, 2, 3>>)>>

C9_StampOfHeaderArgument ==
  call.op \in {"publishCurrentPoseAsPose", "publishPointCloud"} =>
    \A i \in 1..Len(published) :
      published[i].msg.header.stamp = call.header.stamp

----------------------------------------------------------------------------
(* Properties of interleaved calls and timer ticks *)

\* C5: construction creates the one timer, whose callback is
\* publishCurrentPoseAsTF; a tick broadcasts exactly one transform, from
\* frame_id_ to child_frame_id_, holding the T_W_C_ stored at the tick (the
\* initial one too), and leaves T_W_C_, frame_id_ and child_frame_id_ alone.
C5_TickBroadcastsStoredPose ==
  [][/\ pc' = "constructed" =>
          /\ tf_timer_'.created
          /\ tf_timer_'.callback = "publishCurrentPoseAsTF"
     /\ \A now \in Stamps :
          publishCurrentPoseAsTF(now) =>
            /\ Len(published') = Len(published) + 1
            /\ SubSeq(published', 1, Len(published)) = published
            /\ published'[Len(published')].topic = "/tf"
            /\ published'[Len(published')].msg.stamp = now
            /\ published'[Len(published')].msg.frame_id = frame_id_
            /\ published'[Len(published')].msg.child_frame_id = child_frame_id_
            /\ published'[Len(published')].msg.transform.origin = T_W_C_.p
            /\ published'[Len(published')].msg.transform.rotation
                 = <<T_W_C_.q[2], T_W_C_.q[3], T_W_C_.q[4], T_W_C_.q[1]>>
            /\ UNCHANGED <<T_W_C_, frame_id_, child_frame_id_>>]_vars

C5_Witness ==
  /\ Len(published) = 2
  /\ published[1].topic = "/tf"
  /\ published[1].msg.transform.origin = <<0, 0, 0>>
  /\ published[1].msg.frame_id = "map"
  /\ published[1].msg.child_frame_id = "cam0"
  /\ published[2].topic = "/tf"
  /\ published[2].msg.transform.origin = <<1, 2, 3>>

\* What a step that publishes one message on a channel does to the log and
\* to the rest of the interface.
PublishesOnce(topic, msg) ==
  /\ published' = Append(published, [topic |-> topic, msg |-> msg])
  /\ UNCHANGED <<T_W_C_, configVars>>

\* C6: however calls and ticks interleave, a call of publishCurrentPose,
\* publishCurrentPoseAsPose or publishPointCloud adds exactly one message,
\* on transform_cam, pose_cam or keypoints_cloud respectively, decided by
\* its arguments and the configuration alone; the messages already
\* published stay as they are, and T_W_C_ and the configuration members are
\* not modified.
C6_EachCallPublishesOnce ==
  [][/\ \A T \in Transformations, header \in Headers :
          /\ publishCurrentPose(T, header) =>
               PublishesOnce("transform_cam",
                             TransformStampedMsg(T, header, child_frame_id_))
          /\ publishCurrentPoseAsPose(T, header) =>
               PublishesOnce("pose_cam", PoseStampedMsg(T, header))
     /\ \A mapPoints \in SomeMapPointLists, header \in Headers :
          publishPointCloud(mapPoints, header) =>
            PublishesOnce("keypoints_cloud", PointCloud2Msg(mapPoints, header))
     /\ Len(published') \in {Len(published), Len(published) + 1}
     /\ SubSeq(published', 1, Len(published)) = published]_vars

C6_Witness ==
  /\ Len(published) = 2
  /\ published[1].topic = "/tf"
  /\ published[2].topic = "keypoints_cloud"
  /\ published[2].msg.width = 2
  /\ T_W_C_ # Identity

\* C10: every message on pose_cam and on keypoints_cloud has frame_id
\* "world"; the configured frame_id_ appears only as the parent frame of the
\* timer's broadcast.
C10_WorldFrameOnPoseAndCloud ==
  \A i \in 1..Len(published) :
    /\ published[i].topic \in {"pose_cam", "keypoints_cloud"} =>
         published[i].msg.header.frame_id = "world"
    /\ published[i].topic = "/tf" => published[i].msg.frame_id = frame_id_
    /\ published[i].topic = "transform_cam" =>
         /\ published[i].msg.header.frame_id \in HeaderFrames
         /\ frame_id_ \notin HeaderFrames =>
              published[i].msg.header.frame_id # frame_id_

C10_Witness ==
  /\ frame_id_ = "map"
  /\ Len(published) = 2
  /\ published[1].topic = "pose_cam"
  /\ published[2].topic = "keypoints_cloud"
  /\ published[2].msg.width > 0

----------------------------------------------------------------------------
(* Properties of convertOrbSlamPoseToKindr *)

MatMulT(A, B) ==
  [i \in 1..3 |-> [j \in 1..3 |-> A[i][1] * B[j][1] + A[i][2] * B[j][2]
                                    + A[i][3] * B[j][3]]]

Det3(A) ==
  A[1][1] * (A[2][2] * A[3][3] - A[2][3] * A[3][2])
  - A[1][2] * (A[2][1] * A[3][3] - A[2][3] * A[3][1])
  + A[1][3] * (A[2][1] * A[3][2] - A[2][2] * A[3][1])

Scaled(c, A) == [i \in 1..3 |-> [j \in 1..3 |-> c * A[i][j]]]

\* num / den is orthogonal with determinant 1.
IsRotation(R) ==
  /\ R.den > 0
  /\ MatMulT(R.num, R.num) = Scaled(R.den * R.den, I3)
  /\ Det3(R.num) = R.den * R.den * R.den

\* C7: for a 4x4 input, the stored transformation's rotation is orthogonal
\* with determinant 1, also when the input's upper-left 3x3 block is not;
\* a block that is a rotation already is stored as it is; the translation
\* is rows 0..2 of column 3 of the input.
C7_StoredRotationIsValid ==
  convPc = "done" =>
    /\ IsRotation(T_kindr.value.R)
    /\ IsRotation([num |-> Block33(T_cv.data), den |-> 1]) =>
         T_kindr.value.R.num = Scaled(T_kindr.value.R.den, Block33(T_cv.data))
    /\ T_kindr.value.t = <<T_cv.data[1][4], T_cv.data[2][4], T_cv.data[3][4]>>

C7_Witness ==
  /\ convPc = "done"
  /\ ~IsRotation([num |-> Block33(T_cv.data), den |-> 1])
  /\ Det3(Block33(T_cv.data)) = 0
  /\ T_cv.data[1][4] = 1
  /\ IsRotation(T_kindr.value.R)
  /\ T_kindr.value.R.den > 1

\* C8: the call aborts when T_kindr is null, else when T_cv has not 4
\* columns, else when it has not 4 rows, and then writes nothing; with all
\* three checks passed it writes *T_kindr once; nothing else is modified.
C8_WritesOnlyAfterChecks ==
  /\ convPc # "call" =>
       /\ T_kindr.null =>
            convPc = "aborted" /\ convFatal = "Check failed: 'T_kindr' Must be non NULL"
       /\ (~T_kindr.null /\ T_cv.cols # 4) =>
            convPc = "aborted" /\ convFatal = "Check failed: T_cv.cols == 4"
       /\ (~T_kindr.null /\ T_cv.cols = 4 /\ T_cv.rows # 4) =>
            convPc = "aborted" /\ convFatal = "Check failed: T_cv.rows == 4"
       /\ (~T_kindr.null /\ T_cv.cols = 4 /\ T_cv.rows = 4) =>
            convPc = "done" /\ convFatal = "" /\ T_kindr.writes = 1
  /\ convPc = "aborted" =>
       T_kindr.writes = 0 /\ T_kindr.value = DefaultTransformation
  /\ pc = "start" /\ published = <<>> /\ T_W_C_ = Identity

C8_Witness ==
  /\ convPc = "aborted"
  /\ T_kindr.null
  /\ T_cv.cols = 3
  /\ T_cv.rows = 3

====
